---------------------------- MODULE Spec2Model ----------------------------
(* Model of the LinuxSystemFingerprint collector (package fingerprint and   *)
(* its command-line entry points).                                          *)
(*                                                                          *)
(* Go strings are modelled as sequences of atoms.  An atom is either one of *)
(* the characters the code inspects (space, newline, "/", "-", ".", ":") or *)
(* an opaque run of ordinary characters such as "docker"; string functions  *)
(* (TrimSpace, Fields, Split, Contains, HasPrefix, filepath.Clean/Join) are *)
(* computed on these sequences as the Go library computes them on bytes.    *)
EXTENDS Integers, Sequences, FiniteSets, TLC

----------------------------------------------------------------------------
(* strings *)

EmptyStr == << >>
SP == " "
NL == "\n"
SL == "/"

IsSpace(c) == c \in {SP, NL}

RECURSIVE TrimLeft(_)
TrimLeft(s) ==
  IF s = << >> THEN << >>
  ELSE IF IsSpace(Head(s)) THEN TrimLeft(Tail(s)) ELSE s

RECURSIVE TrimRight(_)
TrimRight(s) ==
  IF s = << >> THEN << >>
  ELSE IF IsSpace(s[Len(s)]) THEN TrimRight(SubSeq(s, 1, Len(s) - 1)) ELSE s

TrimSpace(s) == TrimRight(TrimLeft(s))

HasPrefix(s, p) == Len(s) >= Len(p) /\ SubSeq(s, 1, Len(p)) = p

\* strings.Index: position (1-based) of the first occurrence of sep in s, 0 if none
RECURSIVE IndexFrom(_, _, _)
IndexFrom(s, sep, i) ==
  IF i + Len(sep) - 1 > Len(s) THEN 0
  ELSE IF SubSeq(s, i, i + Len(sep) - 1) = sep THEN i
  ELSE IndexFrom(s, sep, i + 1)

Index(s, sep) == IndexFrom(s, sep, 1)

Contains(s, sep) == Index(s, sep) # 0

\* strings.Split for a non-empty separator: cut at successive non-overlapping
\* occurrences, scanning left to right
RECURSIVE Split(_, _)
Split(s, sep) ==
  LET i == Index(s, sep) IN
    IF i = 0 THEN << s >>
    ELSE << SubSeq(s, 1, i - 1) >> \o Split(SubSeq(s, i + Len(sep), Len(s)), sep)

\* strings.Fields: maximal runs of non-space atoms
RECURSIVE FieldsAcc(_, _, _)
FieldsAcc(s, cur, acc) ==
  IF s = << >> THEN (IF cur = << >> THEN acc ELSE Append(acc, cur))
  ELSE IF IsSpace(Head(s))
       THEN FieldsAcc(Tail(s), << >>, IF cur = << >> THEN acc ELSE Append(acc, cur))
       ELSE FieldsAcc(Tail(s), Append(cur, Head(s)), acc)

Fields(s) == FieldsAcc(s, << >>, << >>)

RECURSIVE JoinWith(_, _)
JoinWith(parts, sep) ==
  IF parts = << >> THEN << >>
  ELSE IF Len(parts) = 1 THEN parts[1]
  ELSE parts[1] \o sep \o JoinWith(Tail(parts), sep)

\* filepath.Clean: drop empty and "." elements, resolve ".." lexically
RECURSIVE CleanElems(_, _, _)
CleanElems(elems, rooted, acc) ==
  IF elems = << >> THEN acc
  ELSE LET e == Head(elems) IN
    IF e = << >> \/ e = << "." >> THEN CleanElems(Tail(elems), rooted, acc)
    ELSE IF e = << ".", "." >>
      THEN IF acc # << >> /\ acc[Len(acc)] # << ".", "." >>
             THEN CleanElems(Tail(elems), rooted, SubSeq(acc, 1, Len(acc) - 1))
           ELSE IF rooted THEN CleanElems(Tail(elems), rooted, acc)
           ELSE CleanElems(Tail(elems), rooted, Append(acc, e))
    ELSE CleanElems(Tail(elems), rooted, Append(acc, e))

Clean(p) ==
  IF p = << >> THEN << "." >>
  ELSE LET rooted == Head(p) = SL
           body == JoinWith(CleanElems(Split(p, << SL >>), rooted, << >>), << SL >>)
       IN IF rooted THEN << SL >> \o body
          ELSE IF body = << >> THEN << "." >> ELSE body

\* filepath.Join: empty elements are ignored, the rest joined by "/" and cleaned
FilepathJoin(a, b) ==
  LET parts == SelectSeq(<< a, b >>, LAMBDA x : x # << >>) IN
    IF parts = << >> THEN << >> ELSE Clean(JoinWith(parts, << SL >>))

----------------------------------------------------------------------------
(* well-known paths and program constants *)

StdRoot == << SL, "var", SL, "lib", SL, "docker" >>
SnapRoot == << SL, "var", SL, "snap", SL, "docker", SL, "common", SL, "var-lib-docker" >>
RootlessRel == << ".", "local", SL, "share", SL, "docker" >>
EngineIDName == << "engine-id" >>
DaemonJSON == << SL, "etc", SL, "docker", SL, "daemon", ".", "json" >>
LegacyFiles ==
  << StdRoot \o << SL, ".", "docker_id" >>, StdRoot \o << SL, ".", "docker_uuid" >> >>
DockerSock == << SL, "var", SL, "run", SL, "docker", ".", "sock" >>

\* the 2-second budget of the socket query and of the docker CLI
TimeoutSeconds == 2
NoDeadline == << >>

\* how many collections (process invocations) a behaviour runs on the same system
NumRuns == 2

VARIABLES
  sys,       \* the host: files, daemon, binaries, devices (never written by the program)
  run,       \* which invocation of the program is running
  pc,        \* position inside GetSnapshot / main
  log,       \* history: every access to an external source made by this invocation
  deadline,  \* timeout armed for the blocking call in progress, NoDeadline if none
  snap,      \* the Snapshot under construction
  roots, ri, seen, li,             \* locals of dockerID
  mnt,                             \* << src, fstype >> returned by rootfsFromMountinfo
  dev, realDev, ei, uuid,          \* parameter, locals and result of rootfsUUID
  outs       \* standard output of the finished invocations

dockerLocals == << roots, ri, seen, li >>
uuidLocals == << dev, realDev, ei, uuid >>
vars == << sys, run, pc, log, deadline, snap, dockerLocals, mnt, uuidLocals, outs >>

----------------------------------------------------------------------------
(* the host's file system, as os.ReadFile sees it *)

FileExists(p) == p \in DOMAIN sys.files

\* readTrim and dockerID's readFile closure: "" on any read error
ReadTrim(p) == IF FileExists(p) THEN TrimSpace(sys.files[p]) ELSE EmptyStr

Ev(op, arg) == [op |-> op, arg |-> arg]

----------------------------------------------------------------------------
(* dockerID *)

\* json.Unmarshal into daemonCfg followed by the TrimSpace test on DataRoot
ConfiguredRoots ==
  IF sys.cfg.kind = "json" /\ TrimSpace(sys.cfg.dataRoot) # EmptyStr
    THEN << TrimSpace(sys.cfg.dataRoot) >>
    ELSE << >>

\* mutation: the standard directory is tried before the configured data-root
CandidateRootsStdFirst ==
  << StdRoot >> \o ConfiguredRoots \o << FilepathJoin(sys.home, RootlessRel), SnapRoot >>

CandidateRoots ==
  ConfiguredRoots \o << StdRoot, FilepathJoin(sys.home, RootlessRel), SnapRoot >>

\* mutation: the set of visited directories outlives a resolution
StaleSeen == seen

FreshSeen == {}

\* mutation: a found id does not end the chain
FoundNever(id) == FALSE

\* the test `id != ""` that ends the chain at a source
Found(id) == id # EmptyStr

AfterDockerID == "mountinfo"

DockerReadConfig ==
  /\ pc = "docker"
  /\ roots' = CandidateRoots
  /\ seen' = FreshSeen
  /\ ri' = 1
  /\ log' = Append(log, Ev("ReadFile", DaemonJSON))
  /\ pc' = "docker_roots"
  /\ UNCHANGED << sys, run, deadline, li, snap, mnt, uuidLocals, outs >>

\* one iteration of the loop over roots
DockerTryRoot ==
  /\ pc = "docker_roots"
  /\ ri <= Len(roots)
  /\ LET r == roots[ri]
         p == FilepathJoin(r, EngineIDName)
         id == ReadTrim(p)
     IN IF r = EmptyStr \/ r \in seen
          THEN /\ ri' = ri + 1
               /\ UNCHANGED << seen, log, snap, pc >>
          ELSE /\ seen' = seen \cup {r}
               /\ log' = Append(log, Ev("ReadFile", p))
               /\ IF Found(id)
                    THEN /\ snap' = [snap EXCEPT !.Docker.DaemonID = id]
                         /\ pc' = AfterDockerID
                         /\ ri' = ri
                    ELSE /\ ri' = ri + 1
                         /\ UNCHANGED << snap, pc >>
  /\ UNCHANGED << sys, run, deadline, roots, li, mnt, uuidLocals, outs >>

DockerRootsExhausted ==
  /\ pc = "docker_roots"
  /\ ri > Len(roots)
  /\ li' = 1
  /\ pc' = "docker_legacy"
  /\ UNCHANGED << sys, run, log, deadline, roots, ri, seen, snap, mnt, uuidLocals, outs >>

\* one iteration of the loop over the two legacy marker files
DockerTryLegacy ==
  /\ pc = "docker_legacy"
  /\ li <= Len(LegacyFiles)
  /\ LET p == LegacyFiles[li]
         id == ReadTrim(p)
     IN /\ log' = Append(log, Ev("ReadFile", p))
        /\ IF Found(id)
             THEN /\ snap' = [snap EXCEPT !.Docker.DaemonID = id]
                  /\ pc' = AfterDockerID
                  /\ li' = li
             ELSE /\ li' = li + 1
                  /\ pc' = IF li + 1 > Len(LegacyFiles) THEN "docker_sock" ELSE pc
                  /\ UNCHANGED snap
  /\ UNCHANGED << sys, run, deadline, roots, ri, seen, mnt, uuidLocals, outs >>

\* dockerIDViaUnixSocket up to client.Do: the request is sent under a 2 s budget
DockerSocketCall ==
  /\ pc = "docker_sock"
  /\ log' = Append(log, Ev("HTTPGet", DockerSock))
  /\ deadline' = << TimeoutSeconds >>
  /\ pc' = "sock_wait"
  /\ UNCHANGED << sys, run, roots, ri, seen, li, snap, mnt, uuidLocals, outs >>

\* what dockerIDViaUnixSocket returns once client.Do has returned
DockerIDViaUnixSocketResult(resp) ==
  IF resp.kind # "response" THEN EmptyStr       \* dial refused / transport error
  ELSE IF resp.status # 200 THEN EmptyStr
  ELSE IF ~resp.decodable THEN EmptyStr
  ELSE TrimSpace(resp.id)

DockerSocketReturn ==
  /\ pc = "sock_wait"
  /\ sys.sock.kind # "hang"
  /\ deadline' = NoDeadline
  /\ LET id == DockerIDViaUnixSocketResult(sys.sock)
     IN IF Found(id)
          THEN snap' = [snap EXCEPT !.Docker.DaemonID = id] /\ pc' = AfterDockerID
          ELSE pc' = "docker_cli" /\ UNCHANGED snap
  /\ UNCHANGED << sys, run, log, dockerLocals, mnt, uuidLocals, outs >>

\* the daemon never answers: the client's timeout makes client.Do fail
DockerSocketTimeout ==
  /\ pc = "sock_wait"
  /\ sys.sock.kind = "hang"
  /\ deadline # NoDeadline
  /\ deadline' = NoDeadline
  /\ pc' = "docker_cli"
  /\ UNCHANGED << sys, run, log, roots, ri, seen, li, snap, mnt, uuidLocals, outs >>

\* dockerIDViaCLI up to Output(): the client is started under a 2 s context
DockerCLICall ==
  /\ pc = "docker_cli"
  /\ log' = Append(log, Ev("Exec", << "docker", "info", "-f", "{{.ID}}" >>))
  /\ deadline' = << TimeoutSeconds >>
  /\ pc' = "cli_wait"
  /\ UNCHANGED << sys, run, roots, ri, seen, li, snap, mnt, uuidLocals, outs >>

\* mutation: the error of Output() is ignored
DockerIDViaCLIResultIgnoringErr(proc) == TrimSpace(proc.out)

\* what dockerIDViaCLI returns once Output() has returned
DockerIDViaCLIResult(proc) ==
  IF proc.kind # "exit" \/ proc.code # 0 THEN EmptyStr   \* err != nil
  ELSE TrimSpace(proc.out)

DockerCLIReturn ==
  /\ pc = "cli_wait"
  /\ sys.cli.kind # "hang"
  /\ deadline' = NoDeadline
  /\ snap' = [snap EXCEPT !.Docker.DaemonID = DockerIDViaCLIResult(sys.cli)]
  /\ pc' = AfterDockerID
  /\ UNCHANGED << sys, run, log, dockerLocals, mnt, uuidLocals, outs >>

\* the client never exits: the context kills it and Output() fails
DockerCLITimeout ==
  /\ pc = "cli_wait"
  /\ sys.cli.kind = "hang"
  /\ deadline # NoDeadline
  /\ deadline' = NoDeadline
  /\ snap' = [snap EXCEPT !.Docker.DaemonID = EmptyStr]
  /\ pc' = AfterDockerID
  /\ UNCHANGED << sys, run, log, dockerLocals, mnt, uuidLocals, outs >>

----------------------------------------------------------------------------
(* scalar probes *)

Q == "\""
OSRelease == << SL, "etc", SL, "os-release" >>
OSTypeFile == << SL, "proc", SL, "sys", SL, "kernel", SL, "ostype" >>
OSRelFile == << SL, "proc", SL, "sys", SL, "kernel", SL, "osrelease" >>
MachineIDFile == << SL, "etc", SL, "machine-id" >>
DMIDir == << SL, "sys", SL, "class", SL, "dmi", SL, "id" >>
ProductUUIDFile == DMIDir \o << SL, "product_uuid" >>
BoardSerialFile == DMIDir \o << SL, "board_serial" >>
ChassisTagFile == DMIDir \o << SL, "chassis_asset_tag" >>
CPUInfoFile == << SL, "proc", SL, "cpuinfo" >>
MemInfoFile == << SL, "proc", SL, "meminfo" >>
MountInfoFile == << SL, "proc", SL, "self", SL, "mountinfo" >>

\* bufio.Scanner with the default split function: the lines of a file,
\* without a final empty line
ScanLines(content) ==
  LET parts == Split(content, << NL >>)
  IN IF parts[Len(parts)] = << >> THEN SubSeq(parts, 1, Len(parts) - 1) ELSE parts

\* strings.Trim(s, `"`)
RECURSIVE TrimQuotes(_)
TrimQuotes(s) ==
  IF s = << >> THEN s
  ELSE IF Head(s) = Q THEN TrimQuotes(Tail(s))
  ELSE IF s[Len(s)] = Q THEN TrimQuotes(SubSeq(s, 1, Len(s) - 1))
  ELSE s

TrimPrefix(s, p) == IF HasPrefix(s, p) THEN SubSeq(s, Len(p) + 1, Len(s)) ELSE s

NamePrefix == << "NAME", "=" >>
VersionPrefix == << "VERSION", "=" >>

\* the loop of readOSEtc over the lines: a later matching line overwrites
RECURSIVE OSEtcLoop(_, _, _)
OSEtcLoop(lines, name, ver) ==
  IF lines = << >> THEN << name, ver >>
  ELSE LET ln == Head(lines) IN
    IF HasPrefix(ln, NamePrefix)
      THEN OSEtcLoop(Tail(lines), TrimQuotes(TrimPrefix(ln, NamePrefix)), ver)
    ELSE IF HasPrefix(ln, VersionPrefix)
      THEN OSEtcLoop(Tail(lines), name, TrimQuotes(TrimPrefix(ln, VersionPrefix)))
    ELSE OSEtcLoop(Tail(lines), name, ver)

ReadOSEtc ==
  IF ~FileExists(OSRelease) THEN << EmptyStr, EmptyStr >>
  ELSE OSEtcLoop(Split(sys.files[OSRelease], << NL >>), EmptyStr, EmptyStr)

ModelNamePrefix == << "model", SP, "name" >>

RECURSIVE CPUModelLoop(_)
CPUModelLoop(lines) ==
  IF lines = << >> THEN EmptyStr
  ELSE LET ln == Head(lines)
           i == Index(ln, << ":" >>)
       IN IF HasPrefix(ln, ModelNamePrefix) /\ i # 0
            THEN TrimSpace(SubSeq(ln, i + 1, Len(ln)))
            ELSE CPUModelLoop(Tail(lines))

FirstCPUModel ==
  IF ~FileExists(CPUInfoFile) THEN EmptyStr
  ELSE CPUModelLoop(ScanLines(sys.files[CPUInfoFile]))

\* the digits fmt's scanNumber accepts for the verb %d
DecimalDigits == { "0", "1", "2", "3", "4", "5", "6", "7", "8", "9" }

DigitVal(a) ==
  CASE a = "0" -> 0 [] a = "1" -> 1 [] a = "2" -> 2 [] a = "3" -> 3 [] a = "4" -> 4
    [] a = "5" -> 5 [] a = "6" -> 6 [] a = "7" -> 7 [] a = "8" -> 8 [] a = "9" -> 9

\* scanNumber: the longest run of accepted characters at the front of the input
RECURSIVE ScanNumber(_)
ScanNumber(s) ==
  IF s # << >> /\ Head(s) \in DecimalDigits \cup { "_" }
    THEN << Head(s) >> \o ScanNumber(Tail(s))
    ELSE << >>

\* strconv.ParseUint(tok, 10, 64): the value, or -1 for a syntax error
\* (the numerals of the modelled reports stay far below 2^64)
RECURSIVE ParseUintFrom(_, _)
ParseUintFrom(acc, tok) ==
  IF tok = << >> THEN acc
  ELSE IF Head(tok) \notin DecimalDigits THEN -1
  ELSE ParseUintFrom(acc * 10 + DigitVal(Head(tok)), Tail(tok))

ParseUint(tok) == IF tok = << >> THEN -1 ELSE ParseUintFrom(0, tok)

MemTotalPrefix == << "MemTotal", ":" >>

\* fmt.Sscanf(ln, "MemTotal: %d %s", &val, &unit): the value left in val.
\* The literal text must match; the blank of the format must meet a blank or
\* the end of the input; %d skips blanks and scans an unsigned decimal; any
\* scanning error leaves val at its zero value.
SscanfMemTotal(ln) ==
  IF ~HasPrefix(ln, MemTotalPrefix) THEN 0
  ELSE LET afterLabel == SubSeq(ln, Len(MemTotalPrefix) + 1, Len(ln))
           rest == TrimLeft(afterLabel)
           tok == ScanNumber(rest)
       IN IF afterLabel # << >> /\ ~IsSpace(Head(afterLabel)) THEN 0
          ELSE IF rest = << >> \/ tok = << >> THEN 0
          ELSE IF ParseUint(tok) < 0 THEN 0
          ELSE ParseUint(tok)

\* the loop without its break: the last labelled line would win
RECURSIVE MemTotalLoopNoBreak(_)
MemTotalLoopNoBreak(lines) ==
  IF lines = << >> THEN 0
  ELSE IF HasPrefix(lines[Len(lines)], MemTotalPrefix)
    THEN SscanfMemTotal(lines[Len(lines)])
  ELSE MemTotalLoopNoBreak(SubSeq(lines, 1, Len(lines) - 1))

RECURSIVE MemTotalLoop(_)
MemTotalLoop(lines) ==
  IF lines = << >> THEN 0
  ELSE IF HasPrefix(Head(lines), MemTotalPrefix) THEN SscanfMemTotal(Head(lines))
  ELSE MemTotalLoop(Tail(lines))

MemTotalKB ==
  IF ~FileExists(MemInfoFile) THEN 0
  ELSE MemTotalLoop(ScanLines(sys.files[MemInfoFile]))

ZeroSnapshot ==
  [ Hostname |-> EmptyStr,
    OS |-> [Name |-> EmptyStr, Version |-> EmptyStr,
            KernelType |-> EmptyStr, KernelRel |-> EmptyStr],
    MachineID |-> EmptyStr,
    DMI |-> [ProductUUID |-> EmptyStr, BoardSerial |-> EmptyStr,
             ChassisAssetTag |-> EmptyStr],
    CPU |-> [Model |-> EmptyStr],
    Memory |-> [MemTotalKB |-> 0],
    Network |-> << >>,
    RootFS |-> [Source |-> EmptyStr, Fstype |-> EmptyStr, UUID |-> EmptyStr],
    Docker |-> [DaemonID |-> EmptyStr],
    Runtime |-> [GOOS |-> EmptyStr, GOARCH |-> EmptyStr] ]

\* GetSnapshot, the probes evaluated before the composite literal's CPU field
ReadScalars ==
  /\ pc = "scalars"
  /\ snap' = [ZeroSnapshot EXCEPT
       !.Hostname = IF sys.hostname.ok THEN sys.hostname.name ELSE EmptyStr,
       !.OS = [Name |-> ReadOSEtc[1], Version |-> ReadOSEtc[2],
               KernelType |-> ReadTrim(OSTypeFile), KernelRel |-> ReadTrim(OSRelFile)],
       !.MachineID = ReadTrim(MachineIDFile),
       !.DMI = [ProductUUID |-> ReadTrim(ProductUUIDFile),
                BoardSerial |-> ReadTrim(BoardSerialFile),
                ChassisAssetTag |-> ReadTrim(ChassisTagFile)]]
  /\ pc' = "cpu"
  /\ UNCHANGED << sys, run, log, deadline, dockerLocals, mnt, uuidLocals, outs >>

ReadCPU ==
  /\ pc = "cpu"
  /\ snap' = [snap EXCEPT !.CPU.Model = FirstCPUModel]
  /\ pc' = "mem"
  /\ UNCHANGED << sys, run, log, deadline, dockerLocals, mnt, uuidLocals, outs >>

ReadMem ==
  /\ pc = "mem"
  /\ snap' = [snap EXCEPT !.Memory.MemTotalKB = MemTotalKB]
  /\ pc' = "net"
  /\ UNCHANGED << sys, run, log, deadline, dockerLocals, mnt, uuidLocals, outs >>

----------------------------------------------------------------------------
(* netIfaces *)

HexDigit(n) ==
  << "0", "1", "2", "3", "4", "5", "6", "7", "8", "9", "a", "b", "c", "d", "e", "f" >>[n + 1]

HexByte(b) == << HexDigit(b \div 16), HexDigit(b % 16) >>

\* net.HardwareAddr.String: "" for an empty address, else hex bytes joined by ":"
HardwareAddrString(hw) ==
  JoinWith([i \in 1..Len(hw) |-> HexByte(hw[i])], << ":" >>)

LoopbackName == << "lo" >>
ZeroMAC == JoinWith([i \in 1..6 |-> << "0", "0" >>], << ":" >>)

\* mutation: the all-zero address is not filtered
SkipIfaceZeroKept(it) ==
  \/ it.Name = LoopbackName
  \/ HardwareAddrString(it.HardwareAddr) = EmptyStr

\* the two `continue` tests of the loop
SkipIface(it) ==
  \/ it.Name = LoopbackName
  \/ HardwareAddrString(it.HardwareAddr) = EmptyStr
  \/ HardwareAddrString(it.HardwareAddr) = ZeroMAC

RECURSIVE NetIfacesLoop(_, _)
NetIfacesLoop(ifaces, out) ==
  IF ifaces = << >> THEN out
  ELSE LET it == Head(ifaces) IN
    IF SkipIface(it) THEN NetIfacesLoop(Tail(ifaces), out)
    ELSE NetIfacesLoop(Tail(ifaces),
           Append(out, [Name |-> it.Name, MAC |-> HardwareAddrString(it.HardwareAddr)]))

NetIfaces ==
  IF ~sys.net.ok THEN << >> ELSE NetIfacesLoop(sys.net.ifaces, << >>)

ReadNet ==
  /\ pc = "net"
  /\ snap' = [snap EXCEPT !.Network = NetIfaces,
                          !.Runtime = [GOOS |-> << "linux" >>, GOARCH |-> << "amd64" >>]]
  /\ pc' = "docker"
  /\ UNCHANGED << sys, run, log, deadline, dockerLocals, mnt, uuidLocals, outs >>

----------------------------------------------------------------------------
(* rootfsFromMountinfo *)

Separator == << SP, "-", SP >>
RootMount == << SL >>

\* the scan loop: << source, fstype >>
RECURSIVE MountinfoLoop(_)
MountinfoLoop(lines) ==
  IF lines = << >> THEN << EmptyStr, EmptyStr >>
  ELSE LET ln == Head(lines)
           parts == Split(ln, Separator)
           leftFields == Fields(parts[1])
           rightFields == Fields(parts[2])
       IN IF ~Contains(ln, Separator) THEN MountinfoLoop(Tail(lines))
          ELSE IF Len(parts) # 2 THEN MountinfoLoop(Tail(lines))
          ELSE IF Len(leftFields) < 5 THEN MountinfoLoop(Tail(lines))
          ELSE IF leftFields[5] # RootMount THEN MountinfoLoop(Tail(lines))
          ELSE IF Len(rightFields) >= 2 THEN << rightFields[2], rightFields[1] >>
          ELSE << EmptyStr, EmptyStr >>

RootfsFromMountinfo ==
  IF ~FileExists(MountInfoFile) THEN << EmptyStr, EmptyStr >>
  ELSE MountinfoLoop(ScanLines(sys.files[MountInfoFile]))

\* GetSnapshot: src, fstype := rootfsFromMountinfo(); uuid := rootfsUUID(src)
ReadMountinfo ==
  /\ pc = "mountinfo"
  /\ mnt' = RootfsFromMountinfo
  /\ dev' = RootfsFromMountinfo[1]
  /\ log' = Append(log, Ev("Open", MountInfoFile))
  /\ pc' = "uuid"
  /\ UNCHANGED << sys, run, deadline, snap, dockerLocals, realDev, ei, uuid, outs >>

----------------------------------------------------------------------------
(* rootfsUUID *)

ByUUIDDir == << SL, "dev", SL, "disk", SL, "by-uuid" >>

\* the file names a by-uuid directory may hold, in the order os.ReadDir
\* lists them (sorted by file name)
AllUUIDNames == << << "1111-2222" >>, << "aaaa-bbbb" >>, << "cccc-dddd" >> >>

NodeExists(p) == p \in DOMAIN sys.nodes

\* filepath.Dir of a clean absolute path
PathDir(p) ==
  LET elems == Split(p, << SL >>)
  IN Clean(JoinWith(SubSeq(elems, 1, Len(elems) - 1), << SL >>) \o << SL >>)

\* filepath.EvalSymlinks on a clean path: follow the links of the final
\* element until a node that is no link; fails on a missing node or a cycle
RECURSIVE FollowLinks(_, _)
FollowLinks(p, visited) ==
  IF ~NodeExists(p) \/ p \in visited THEN [ok |-> FALSE, path |-> EmptyStr]
  ELSE IF sys.nodes[p].kind = "link"
    THEN LET t == sys.nodes[p].target
         IN FollowLinks(IF HasPrefix(t, << SL >>) THEN Clean(t)
                        ELSE FilepathJoin(PathDir(p), t),
                        visited \cup {p})
  ELSE [ok |-> TRUE, path |-> p]

EvalSymlinks(p) == FollowLinks(Clean(p), {})

\* mutation: the entries are compared with the unresolved device path
CanonicalDeviceUnresolved(d) == d

\* realDev after lines 297-300
CanonicalDevice(d) ==
  IF ~EvalSymlinks(d).ok \/ EvalSymlinks(d).path = EmptyStr THEN d
  ELSE EvalSymlinks(d).path

ReadDirOK == NodeExists(ByUUIDDir) /\ sys.nodes[ByUUIDDir].kind = "dir"

\* os.ReadDir(byUUID): the names present, sorted
DirEntries ==
  SelectSeq(AllUUIDNames, LAMBDA n : NodeExists(ByUUIDDir \o << SL >> \o n))

\* mutation: the early return on an empty device is missing
DevIsEmptyNever(d) == FALSE

DevIsEmpty(d) == d = EmptyStr

AfterUUID == "return"

\* rootfsUUID, lines 294-302
UUIDStart ==
  /\ pc = "uuid"
  /\ IF DevIsEmpty(dev)
       THEN /\ uuid' = EmptyStr
            /\ pc' = AfterUUID
            /\ UNCHANGED << realDev, ei, log >>
       ELSE /\ realDev' = CanonicalDevice(dev)
            /\ log' = Append(log, Ev("ReadDir", ByUUIDDir))
            /\ ei' = 1
            /\ pc' = IF ReadDirOK THEN "uuid_scan" ELSE "blkid"
            /\ UNCHANGED uuid
  /\ UNCHANGED << sys, run, deadline, snap, dockerLocals, mnt, dev, outs >>

\* one iteration of the loop over the directory entries
UUIDScanEntry ==
  /\ pc = "uuid_scan"
  /\ ei <= Len(DirEntries)
  /\ LET name == DirEntries[ei]
         node == sys.nodes[FilepathJoin(ByUUIDDir, name)]
         target == node.target
         fullTarget == IF HasPrefix(target, << SL >>) THEN target
                       ELSE FilepathJoin(ByUUIDDir, target)
         resolved == EvalSymlinks(fullTarget)
     IN IF node.kind = "dir" THEN ei' = ei + 1 /\ UNCHANGED << uuid, pc >>
        ELSE IF node.kind # "link" THEN ei' = ei + 1 /\ UNCHANGED << uuid, pc >>
        ELSE IF ~resolved.ok THEN ei' = ei + 1 /\ UNCHANGED << uuid, pc >>
        ELSE IF resolved.path = realDev
          THEN uuid' = name /\ pc' = AfterUUID /\ ei' = ei
          ELSE ei' = ei + 1 /\ UNCHANGED << uuid, pc >>
  /\ UNCHANGED << sys, run, log, deadline, snap, dockerLocals, mnt, dev, realDev, outs >>

UUIDEntriesExhausted ==
  /\ pc = "uuid_scan"
  /\ ei > Len(DirEntries)
  /\ pc' = "blkid"
  /\ UNCHANGED << sys, run, log, deadline, snap, dockerLocals, mnt, uuidLocals, outs >>

\* exec.Command("blkid", ..., dev).Output(): started with no context and no
\* timer, so no deadline is armed while the program waits for it
BlkidCall ==
  /\ pc = "blkid"
  /\ log' = Append(log, Ev("Exec", << "blkid", "-s", "UUID", "-o", "value" >> \o dev))
  /\ deadline' = NoDeadline
  /\ pc' = "blkid_wait"
  /\ UNCHANGED << sys, run, snap, dockerLocals, mnt, uuidLocals, outs >>

\* lines 326-331, once Output() has returned
BlkidResult(proc) ==
  IF proc.kind = "exit" /\ proc.code = 0 THEN TrimSpace(proc.out) ELSE EmptyStr

BlkidReturn ==
  /\ pc = "blkid_wait"
  /\ sys.blkid.kind # "hang"
  /\ uuid' = BlkidResult(sys.blkid)
  /\ pc' = AfterUUID
  /\ UNCHANGED << sys, run, log, deadline, snap, dockerLocals, mnt, dev, realDev, ei, outs >>

----------------------------------------------------------------------------
(* GetSnapshot's tail and main *)

\* snap.RootFS = ...; the WalkDir callback does nothing; return snap
Return ==
  /\ pc = "return"
  /\ snap' = [snap EXCEPT !.RootFS = [Source |-> mnt[1], Fstype |-> mnt[2], UUID |-> uuid]]
  /\ pc' = "marshal"
  /\ UNCHANGED << sys, run, log, deadline, dockerLocals, mnt, uuidLocals, outs >>

\* encoding/json on the struct tags: the output as a sequence of tokens
JStr(v) == << Q >> \o v \o << Q >>
JField(k, val) == << Q \o k \o Q \o ":" >> \o val
JOmitEmpty(k, v) == IF v = EmptyStr THEN << >> ELSE << JField(k, JStr(v)) >>
JObject(fields) == << "{" >> \o JoinWith(fields, << "," >>) \o << "}" >>
JArray(items) == << "[" >> \o JoinWith(items, << "," >>) \o << "]" >>

MarshalNetIf(n) == JObject(<< JField("name", JStr(n.Name)), JField("mac", JStr(n.MAC)) >>)

Marshal(sn) ==
  JObject(
    JOmitEmpty("hostname", sn.Hostname)
    \o << JField("os", JObject(
            JOmitEmpty("name", sn.OS.Name) \o JOmitEmpty("version", sn.OS.Version)
            \o JOmitEmpty("kernel_type", sn.OS.KernelType)
            \o JOmitEmpty("kernel_release", sn.OS.KernelRel))) >>
    \o JOmitEmpty("machine_id", sn.MachineID)
    \o << JField("dmi", JObject(
            JOmitEmpty("product_uuid", sn.DMI.ProductUUID)
            \o JOmitEmpty("board_serial", sn.DMI.BoardSerial)
            \o JOmitEmpty("chassis_asset_tag", sn.DMI.ChassisAssetTag))),
          JField("cpu", JObject(JOmitEmpty("model", sn.CPU.Model))),
          JField("memory", JObject(
            IF sn.Memory.MemTotalKB = 0 THEN << >>
            ELSE << JField("mem_total_kb", << ToString(sn.Memory.MemTotalKB) >>) >>)),
          JField("network",
            IF sn.Network = << >> THEN << "null" >>
            ELSE JArray([i \in 1..Len(sn.Network) |-> MarshalNetIf(sn.Network[i])])),
          JField("rootfs", JObject(
            JOmitEmpty("source", sn.RootFS.Source) \o JOmitEmpty("fstype", sn.RootFS.Fstype)
            \o JOmitEmpty("uuid", sn.RootFS.UUID))),
          JField("docker", JObject(JOmitEmpty("daemon_id", sn.Docker.DaemonID))),
          JField("go_runtime", JObject(
            << JField("goos", JStr(sn.Runtime.GOOS)),
               JField("goarch", JStr(sn.Runtime.GOARCH)) >>)) >>)

\* sha256.Sum256 + hex: abstracted as an injective tag of the hashed bytes
Digest(bytes) == << "sha256" >> \o bytes

\* main: serialize the snapshot and print it (or its digest)
Main ==
  /\ pc = "marshal"
  /\ outs' = Append(outs, [json |-> Marshal(snap), digest |-> Digest(Marshal(snap))])
  /\ pc' = "exit"
  /\ UNCHANGED << sys, run, log, deadline, snap, dockerLocals, mnt, uuidLocals >>

\* the program is started again on the same, unchanged system
NextRun ==
  /\ pc = "exit"
  /\ run < NumRuns
  /\ run' = run + 1
  /\ pc' = "scalars"
  /\ log' = << >>
  /\ UNCHANGED << sys, deadline, snap, dockerLocals, mnt, uuidLocals, outs >>

----------------------------------------------------------------------------
(* the hosts the program is run on *)

MaxMounts == 2    \* records in a mount table
MaxIfaces == 3    \* interfaces the OS enumerates
MaxEntries == 2   \* names in the by-uuid directory

Padded(id) == << SP, id, NL >>
Blank == << SP, NL >>

\* sequences over a set, up to a length
SeqsUpTo(S, n) == UNION { [1..k -> S] : k \in 0..n }

\* a function from the paths of a set of << path, content >> pairs
MkFiles(pairs) ==
  [p \in {q[1] : q \in pairs} |-> (CHOOSE q \in pairs : q[1] = p)[2]]

\* --- scalar sources
OSReleaseText ==
  << "PRETTY_NAME", "=", Q, "Ubuntu", SP, "22.04", Q, NL,
     "NAME", "=", Q, "Ubuntu", Q, NL,
     "VERSION_ID", "=", Q, "22.04", Q, NL,
     "VERSION", "=", Q, "22.04", SP, "LTS", Q, NL >>
CPUInfoText ==
  << "processor", SP, ":", SP, "0", NL,
     "model", SP, "name", SP, ":", SP, "Xeon", SP, "E5", NL,
     "model", SP, "name", SP, ":", SP, "Other", NL >>
MemInfoText ==
  << "MemTotal", ":", SP, SP, "1", "6", "3", "8", "4", SP, "kB", NL,
     "MemFree", ":", SP, "8", "1", "9", "2", SP, "kB", NL >>

ScalarGroups ==
  << { << OSRelease, OSReleaseText >> },
     { << OSTypeFile, << "Linux", NL >> >>, << OSRelFile, << "6.1", NL >> >> },
     { << MachineIDFile, << "mid", NL >> >>, << ProductUUIDFile, << "puuid", NL >> >>,
       << BoardSerialFile, << "serial", NL >> >>, << ChassisTagFile, << SP, NL >> >> },
     { << CPUInfoFile, CPUInfoText >> },
     { << MemInfoFile, MemInfoText >> } >>

AllScalars == UNION { ScalarGroups[i] : i \in DOMAIN ScalarGroups }
ScalarChoices ==
  { UNION { ScalarGroups[i] : i \in G } : G \in SUBSET DOMAIN ScalarGroups }

\* --- container-engine sources
CustomRoot == << SL, "custom" >>
HomeDir == << SL, "root" >>
Homes == { EmptyStr, HomeDir }
RootlessOf(home) == IF home = EmptyStr THEN RootlessRel ELSE home \o << SL >> \o RootlessRel

MarkerSlots == { "custom", "std", "rootless", "snap", "legacy1", "legacy2" }
SlotPath(slot, home) ==
  CASE slot = "custom" -> CustomRoot \o << SL >> \o EngineIDName
    [] slot = "std" -> StdRoot \o << SL >> \o EngineIDName
    [] slot = "rootless" -> RootlessOf(home) \o << SL >> \o EngineIDName
    [] slot = "snap" -> SnapRoot \o << SL >> \o EngineIDName
    [] slot = "legacy1" -> << SL, "var", SL, "lib", SL, "docker", SL, ".", "docker_id" >>
    [] slot = "legacy2" -> << SL, "var", SL, "lib", SL, "docker", SL, ".", "docker_uuid" >>
SlotOptions(slot) ==
  IF slot \in { "custom", "std", "legacy1" } THEN { "absent", "blank", "id" }
  ELSE { "absent", "id" }
MarkerChoices ==
  { m \in [MarkerSlots -> { "absent", "blank", "id" }] :
      \A sl \in MarkerSlots : m[sl] \in SlotOptions(sl) }
Markers(m, home) ==
  { << SlotPath(sl, home), IF m[sl] = "id" THEN Padded("id-" \o sl) ELSE Blank >> :
      sl \in { x \in MarkerSlots : m[x] # "absent" } }

NoCfg == [kind |-> "absent", dataRoot |-> EmptyStr]
Cfgs ==
  { NoCfg,
    [kind |-> "malformed", dataRoot |-> EmptyStr],
    [kind |-> "json", dataRoot |-> EmptyStr],
    [kind |-> "json", dataRoot |-> << SP >>],
    [kind |-> "json", dataRoot |-> << SP >> \o CustomRoot \o << SP >>],
    [kind |-> "json", dataRoot |-> StdRoot],
    [kind |-> "json", dataRoot |-> StdRoot \o << SL >>],
    [kind |-> "json", dataRoot |-> SnapRoot] }

SockRefused == [kind |-> "refused", status |-> 0, decodable |-> FALSE, id |-> EmptyStr]
Socks ==
  { SockRefused,
    [kind |-> "hang", status |-> 0, decodable |-> FALSE, id |-> EmptyStr],
    [kind |-> "response", status |-> 500, decodable |-> TRUE, id |-> << "id-err" >>],
    [kind |-> "response", status |-> 200, decodable |-> FALSE, id |-> EmptyStr],
    [kind |-> "response", status |-> 200, decodable |-> TRUE, id |-> EmptyStr],
    [kind |-> "response", status |-> 200, decodable |-> TRUE, id |-> Padded("id-sock")] }
SockOK == [kind |-> "response", status |-> 200, decodable |-> TRUE, id |-> Padded("id-sock")]

ProcMissing == [kind |-> "missing", code |-> 0, out |-> EmptyStr]
ProcHang == [kind |-> "hang", code |-> 0, out |-> EmptyStr]
Procs(tag) ==
  { ProcMissing, ProcHang,
    [kind |-> "exit", code |-> 1, out |-> << "usage" >>],
    [kind |-> "exit", code |-> 0, out |-> << NL >>],
    [kind |-> "exit", code |-> 0, out |-> Padded(tag)] }
ProcOK(tag) == [kind |-> "exit", code |-> 0, out |-> Padded(tag)]

\* --- mount table: records as the kernel keeps them, and their text
Rec(mp, opt, fst, src) == [rec |-> TRUE, mp |-> mp, opt |-> opt, fstype |-> fst, source |-> src, text |-> EmptyStr]
Junk(text) == [rec |-> FALSE, mp |-> EmptyStr, opt |-> FALSE, fstype |-> EmptyStr, source |-> EmptyStr, text |-> text]

SrcSda == << SL, "dev", SL, "sda1" >>
SrcMapper == << SL, "dev", SL, "mapper", SL, "root" >>
SrcOverlay == << "overlay" >>
SrcDash == << "-" >>

MountTypes ==
  { << << "ext4" >>, SrcSda >>, << << "ext4" >>, SrcMapper >>,
    << << "overlay" >>, SrcOverlay >>, << << "tmpfs" >>, SrcDash >> }

MountLines ==
  { Rec(mp, FALSE, t[1], t[2]) : mp \in { << SL >>, << SL, "boot" >> }, t \in MountTypes }
  \cup { Rec(<< SL >>, TRUE, << "ext4" >>, SrcSda) }
  \cup { Junk(EmptyStr), Junk(<< "garbage" >>), Junk(<< "a", SP, "-", SP, "b", SP, "c" >>) }

\* one line of /proc/self/mountinfo:
\* id parent major:minor root mount-point options [optional] - fstype source superopts
LineText(l) ==
  IF ~l.rec THEN l.text
  ELSE JoinWith(<< << "36" >>, << "35" >>, << "8", ":", "1" >>, << SL >>, l.mp, << "rw" >> >>
                \o (IF l.opt THEN << << "shared", ":", "1" >> >> ELSE << >>)
                \o << << "-" >>, l.fstype, l.source, << "rw" >> >>, << SP >>)

RECURSIVE TableText(_)
TableText(t) == IF t = << >> THEN << >> ELSE LineText(Head(t)) \o << NL >> \o TableText(Tail(t))

MountsUnreadable == [ok |-> FALSE, table |-> << >>]
Mounts(t) == [ok |-> TRUE, table |-> t]
DefaultMounts == Mounts(<< Rec(<< SL >>, FALSE, << "ext4" >>, SrcSda) >>)

\* --- device nodes
DevNode == [kind |-> "dev", target |-> EmptyStr]
DirNode == [kind |-> "dir", target |-> EmptyStr]
FileNode == [kind |-> "file", target |-> EmptyStr]
Link(t) == [kind |-> "link", target |-> t]

BaseNodes ==
  { << SrcSda, DevNode >>, << << SL, "dev", SL, "dm-0" >>, DevNode >>,
    << SrcMapper, Link(<< ".", ".", SL, "dm-0" >>) >> }

EntryOptions ==
  { Link(<< ".", ".", SL, ".", ".", SL, "sda1" >>), Link(<< SL, "dev", SL, "dm-0" >>),
    Link(<< ".", ".", SL, ".", ".", SL, "gone" >>), DirNode, FileNode }

UUIDNames == SubSeq(AllUUIDNames, 1, MaxEntries)

\* a by-uuid directory: a partial assignment of nodes to the names
ByUUIDChoices ==
  UNION { [N -> EntryOptions] : N \in SUBSET { UUIDNames[i] : i \in DOMAIN UUIDNames } }
NodesWith(dirOK, entries) ==
  BaseNodes
  \cup (IF dirOK THEN { << ByUUIDDir, DirNode >> } ELSE {})
  \cup { << ByUUIDDir \o << SL >> \o n, entries[n] >> : n \in DOMAIN entries }
DefaultEntries == [n \in { AllUUIDNames[1] } |-> Link(<< ".", ".", SL, ".", ".", SL, "sda1" >>)]

\* --- interfaces
MacA == << 170, 187, 204, 221, 238, 255 >>
MacB == << 2, 66, 172, 17, 0, 2 >>
MacZero == [i \in 1..6 |-> 0]
It(n, hw) == [Name |-> << n >>, HardwareAddr |-> hw]
IfaceOptions ==
  { It("lo", MacZero), It("lo", MacA), It("eth0", MacA), It("eth0", << >>),
    It("eth1", MacZero), It("eth1", MacB), It("eth1", MacA) }
NetError == [ok |-> FALSE, ifaces |-> << >>]
Net(l) == [ok |-> TRUE, ifaces |-> l]

\* --- a host
Host(scal, hostname, markers, cfg, home, sock, cli, mounts, nodes, blkid, net) ==
  [ files |-> MkFiles(scal \cup markers
                 \cup (IF mounts.ok THEN { << MountInfoFile, TableText(mounts.table) >> } ELSE {})),
    hostname |-> hostname, cfg |-> cfg, home |-> home, sock |-> sock, cli |-> cli,
    mounts |-> mounts, nodes |-> MkFiles(nodes), blkid |-> blkid, net |-> net ]

HostnameOK == [ok |-> TRUE, name |-> << "host1" >>]
HostnameErr == [ok |-> FALSE, name |-> EmptyStr]
DefaultMarkers == { << SlotPath("std", HomeDir), Padded("id-std") >> }
DefaultNodes == NodesWith(TRUE, DefaultEntries)
DefaultNet == Net(<< It("eth0", MacA) >>)

ScalarHosts ==
  { Host(sc, hn, DefaultMarkers, NoCfg, HomeDir, SockRefused, ProcMissing,
         DefaultMounts, DefaultNodes, ProcMissing, DefaultNet) :
      sc \in ScalarChoices, hn \in { HostnameOK, HostnameErr } }

NetHosts ==
  { Host(AllScalars, HostnameOK, DefaultMarkers, NoCfg, HomeDir, SockRefused, ProcMissing,
         DefaultMounts, DefaultNodes, ProcMissing, n) :
      n \in { NetError } \cup { Net(l) : l \in SeqsUpTo(IfaceOptions, MaxIfaces) } }

MarkerHosts ==
  { Host(AllScalars, HostnameOK, Markers(m, h), c, h, SockOK, ProcOK("id-cli"),
         DefaultMounts, DefaultNodes, ProcMissing, DefaultNet) :
      m \in MarkerChoices, c \in Cfgs, h \in Homes }

FallbackHosts ==
  { Host(AllScalars, HostnameOK, mk, c, HomeDir, so, cl,
         DefaultMounts, DefaultNodes, ProcMissing, DefaultNet) :
      mk \in { {}, { << SlotPath("legacy2", HomeDir), Padded("id-legacy2") >> },
               { << SlotPath("std", HomeDir), Blank >>, << SlotPath("legacy1", HomeDir), Blank >> } },
      c \in Cfgs, so \in Socks, cl \in Procs("id-cli") }

MountHosts ==
  { Host(AllScalars, HostnameOK, DefaultMarkers, NoCfg, HomeDir, SockRefused, ProcMissing,
         mt, DefaultNodes, ProcOK("uuid-blkid"), DefaultNet) :
      mt \in { MountsUnreadable } \cup { Mounts(t) : t \in SeqsUpTo(MountLines, MaxMounts) } }

UUIDHosts ==
  { Host(AllScalars, HostnameOK, DefaultMarkers, NoCfg, HomeDir, SockRefused, ProcMissing,
         Mounts(<< Rec(<< SL >>, FALSE, << "ext4" >>, d) >>), NodesWith(dirOK, en), b, DefaultNet) :
      d \in { SrcSda, SrcMapper, SrcOverlay },
      dirOK \in BOOLEAN, en \in ByUUIDChoices, b \in Procs("uuid-blkid") }

\* --- memory reports: the lines the kernel writes to /proc/meminfo, each a
\* label, a colon, padding blanks, the decimal count and the unit
MaxMemLines == 2

MemLineOptions ==
  { [label |-> << "MemTotal" >>, blanks |-> 2, kb |-> 16],
    [label |-> << "MemTotal" >>, blanks |-> 1, kb |-> 8],
    [label |-> << "MemTotal" >>, blanks |-> 3, kb |-> 0],
    [label |-> << "MemFree" >>, blanks |-> 1, kb |-> 4],
    [label |-> << "High", "MemTotal" >>, blanks |-> 1, kb |-> 5] }

\* the decimal numeral of a count, one digit per element
RECURSIVE Decimal(_)
Decimal(n) ==
  IF n < 10 THEN << ToString(n) >>
  ELSE Decimal(n \div 10) \o << ToString(n % 10) >>

MemLineText(l) ==
  l.label \o << ":" >> \o [i \in 1..l.blanks |-> SP] \o Decimal(l.kb) \o << SP, "kB", NL >>

RECURSIVE MemReportText(_)
MemReportText(t) ==
  IF t = << >> THEN << >> ELSE MemLineText(Head(t)) \o MemReportText(Tail(t))

MemReports == SeqsUpTo(MemLineOptions, MaxMemLines)

MemHosts ==
  { Host((AllScalars \ { << MemInfoFile, MemInfoText >> }) \cup { << MemInfoFile, MemReportText(t) >> },
         HostnameOK, DefaultMarkers, NoCfg, HomeDir, SockRefused, ProcMissing,
         DefaultMounts, DefaultNodes, ProcMissing, DefaultNet) :
      t \in MemReports }

Hosts ==
  ScalarHosts \cup NetHosts \cup MarkerHosts \cup FallbackHosts \cup MountHosts \cup UUIDHosts
    \cup MemHosts

----------------------------------------------------------------------------
(* the specification *)

Init ==
  /\ sys \in Hosts
  /\ run = 1
  /\ pc = "scalars"
  /\ log = << >>
  /\ deadline = NoDeadline
  /\ snap = ZeroSnapshot
  /\ roots = << >> /\ ri = 1 /\ seen = {} /\ li = 1
  /\ mnt = << EmptyStr, EmptyStr >>
  /\ dev = EmptyStr /\ realDev = EmptyStr /\ ei = 1 /\ uuid = EmptyStr
  /\ outs = << >>

Next ==
  \/ ReadScalars \/ ReadCPU \/ ReadMem \/ ReadNet
  \/ DockerReadConfig \/ DockerTryRoot \/ DockerRootsExhausted \/ DockerTryLegacy
  \/ DockerSocketCall \/ DockerSocketReturn \/ DockerSocketTimeout
  \/ DockerCLICall \/ DockerCLIReturn \/ DockerCLITimeout
  \/ ReadMountinfo
  \/ UUIDStart \/ UUIDScanEntry \/ UUIDEntriesExhausted \/ BlkidCall \/ BlkidReturn
  \/ Return \/ Main \/ NextRun

Spec == Init /\ [][Next]_vars

----------------------------------------------------------------------------
(* properties *)

\* positions of GetSnapshot after dockerID, after rootfsFromMountinfo, after
\* rootfsUUID and after GetSnapshot itself has returned
InUUID == pc \in { "uuid", "uuid_scan", "blkid", "blkid_wait" }
UUIDDone == pc \in { "return", "marshal", "exit" }
MountDone == InUUID \/ UUIDDone
DockerDone == pc = "mountinfo" \/ MountDone
NetDone == pc \notin { "scalars", "cpu", "mem", "net" }
Returned == pc \in { "marshal", "exit" }
Finished == pc = "exit" /\ run = NumRuns

\* the accesses of the log that consult a source of the engine id
IsDockerSource(ev) ==
  \/ ev.op = "HTTPGet"
  \/ ev.op = "ReadFile" /\ ev.arg # DaemonJSON
  \/ ev.op = "Exec" /\ ev.arg[1] = "docker"
IsSocketQuery(ev) == ev.op = "HTTPGet"
IsCLI(ev) == ev.op = "Exec" /\ ev.arg[1] = "docker"
IsBlkid(ev) == ev.op = "Exec" /\ ev.arg[1] = "blkid"
IsReadDir(ev) == ev.op = "ReadDir"
Logged(P(_)) == \E i \in DOMAIN log : P(log[i])

\* what each source of the engine id would yield on this host
SocketYield ==
  IF sys.sock.kind = "response" /\ sys.sock.status = 200 /\ sys.sock.decodable
    THEN TrimSpace(sys.sock.id) ELSE EmptyStr
CLIYield ==
  IF sys.cli.kind = "exit" /\ sys.cli.code = 0 THEN TrimSpace(sys.cli.out) ELSE EmptyStr
Yield(ev) ==
  IF IsSocketQuery(ev) THEN SocketYield
  ELSE IF IsCLI(ev) THEN CLIYield
  ELSE ReadTrim(ev.arg)

\* the marker files in the priority order of the specification
HasCustomRoot == sys.cfg.kind = "json" /\ TrimSpace(sys.cfg.dataRoot) # EmptyStr
MarkerPriority ==
  (IF HasCustomRoot
     THEN << FilepathJoin(TrimSpace(sys.cfg.dataRoot), EngineIDName) >> ELSE << >>)
  \o << SlotPath("std", sys.home), SlotPath("rootless", sys.home), SlotPath("snap", sys.home),
        SlotPath("legacy1", sys.home), SlotPath("legacy2", sys.home) >>
SourceValues ==
  [i \in 1..Len(MarkerPriority) |-> ReadTrim(MarkerPriority[i])] \o << SocketYield, CLIYield >>

RECURSIVE FirstNonEmpty(_)
FirstNonEmpty(vals) ==
  IF vals = << >> THEN EmptyStr
  ELSE IF Head(vals) # EmptyStr THEN Head(vals) ELSE FirstNonEmpty(Tail(vals))

SomeMarkerYields == \E i \in DOMAIN MarkerPriority : ReadTrim(MarkerPriority[i]) # EmptyStr

\* C1: dockerID short-circuits on first success: no source is consulted after
\* a source that yielded a non-empty value; when a data directory or a legacy
\* marker file yields an id neither the socket query nor the CLI is invoked,
\* and when the socket yields an id the CLI is not invoked.
C1_ShortCircuit ==
  /\ \A i, j \in DOMAIN log :
       (i < j /\ IsDockerSource(log[i]) /\ IsDockerSource(log[j]))
         => Yield(log[i]) = EmptyStr
  /\ SomeMarkerYields => ~Logged(IsSocketQuery) /\ ~Logged(IsCLI)
  /\ SocketYield # EmptyStr => ~Logged(IsCLI)

\* the specification's example: data-root "/custom" with an engine-id file,
\* resolved while socket and CLI would both have answered
C1_Witness ==
  /\ DockerDone
  /\ sys.cfg.kind = "json" /\ TrimSpace(sys.cfg.dataRoot) = CustomRoot
  /\ snap.Docker.DaemonID = << "id-custom" >>
  /\ SocketYield # EmptyStr /\ CLIYield # EmptyStr
  /\ ~Logged(IsSocketQuery) /\ ~Logged(IsCLI)

\* C2: dockerID returns the trimmed value of the earliest source, in the
\* order custom data-root, standard, rootless, packaged, .docker_id,
\* .docker_uuid, socket, CLI, that yields a non-empty value.
C2_PriorityOrder ==
  DockerDone => snap.Docker.DaemonID = FirstNonEmpty(SourceValues)

\* a custom data-root without a marker, standard and legacy markers present:
\* the standard directory wins
C2_Witness ==
  /\ DockerDone
  /\ HasCustomRoot /\ TrimSpace(sys.cfg.dataRoot) = CustomRoot
  /\ ~FileExists(SlotPath("custom", sys.home))
  /\ ReadTrim(SlotPath("legacy1", sys.home)) # EmptyStr
  /\ ReadTrim(SlotPath("snap", sys.home)) # EmptyStr
  /\ snap.Docker.DaemonID = << "id-std" >>

\* C3: every operation that can block on an external party is bounded by an
\* explicit timeout, so the collection never waits forever: whenever the
\* program waits for the daemon or for a subprocess, a deadline is armed
\* that ends the wait if the other side never answers.
Waiting == pc \in { "sock_wait", "cli_wait", "blkid_wait" }
C3_BlockingBounded ==
  Waiting => deadline # NoDeadline

\* C4: in the snapshot GetSnapshot returns, every field whose sources are all
\* absent, unreadable or malformed is empty/zero; dockerID is empty when no
\* marker file exists, the socket gives no usable answer and the CLI fails.
DockerUnavailable ==
  /\ \A sl \in MarkerSlots : ~FileExists(SlotPath(sl, sys.home))
  /\ sys.sock.kind # "response" \/ sys.sock.status # 200 \/ ~sys.sock.decodable
  /\ sys.cli.kind # "exit" \/ sys.cli.code # 0
UUIDUnavailable ==
  /\ ~ReadDirOK \/ DirEntries = << >>
  /\ sys.blkid.kind # "exit" \/ sys.blkid.code # 0
C4_AbsentSourcesEmpty ==
  Returned =>
       /\ ~sys.hostname.ok => snap.Hostname = EmptyStr
       /\ ~FileExists(OSRelease) => snap.OS.Name = EmptyStr /\ snap.OS.Version = EmptyStr
       /\ ~FileExists(OSTypeFile) => snap.OS.KernelType = EmptyStr
       /\ ~FileExists(OSRelFile) => snap.OS.KernelRel = EmptyStr
       /\ ~FileExists(MachineIDFile) => snap.MachineID = EmptyStr
       /\ ~FileExists(ProductUUIDFile) => snap.DMI.ProductUUID = EmptyStr
       /\ ~FileExists(BoardSerialFile) => snap.DMI.BoardSerial = EmptyStr
       /\ ~FileExists(ChassisTagFile) => snap.DMI.ChassisAssetTag = EmptyStr
       /\ ~FileExists(CPUInfoFile) => snap.CPU.Model = EmptyStr
       /\ ~FileExists(MemInfoFile) => snap.Memory.MemTotalKB = 0
       /\ ~sys.net.ok => snap.Network = << >>
       /\ ~sys.mounts.ok => snap.RootFS = [Source |-> EmptyStr, Fstype |-> EmptyStr, UUID |-> EmptyStr]
       /\ UUIDUnavailable => snap.RootFS.UUID = EmptyStr
       /\ DockerUnavailable => snap.Docker.DaemonID = EmptyStr

\* no config file, no marker, socket refused, no CLI binary: empty identity
C4_Witness ==
  /\ Returned
  /\ sys.cfg.kind = "absent" /\ DockerUnavailable
  /\ sys.sock.kind = "refused" /\ sys.cli.kind = "missing"
  /\ Logged(IsSocketQuery) /\ Logged(IsCLI)
  /\ snap.Docker.DaemonID = EmptyStr

\* C5: rootfsUUID on a non-empty device: the name of the first by-uuid entry
\* whose link target resolves to the canonicalized device, without running
\* the external tool; otherwise the tool is run on the exact input path and
\* its trimmed output is the result (empty if it fails or prints nothing).
CanonOf(d) == IF EvalSymlinks(d).ok THEN EvalSymlinks(d).path ELSE d
Listing == IF ReadDirOK THEN DirEntries ELSE << >>
EntryMatches(name, d) ==
  LET node == sys.nodes[ByUUIDDir \o << SL >> \o name]
      full == IF Head(node.target) = SL THEN node.target
              ELSE ByUUIDDir \o << SL >> \o node.target
  IN node.kind = "link" /\ EvalSymlinks(full).ok /\ EvalSymlinks(full).path = CanonOf(d)
MatchingEntries(d) == { i \in DOMAIN Listing : EntryMatches(Listing[i], d) }
BlkidRuns == { i \in DOMAIN log : IsBlkid(log[i]) }
C5_UUIDResolution ==
  /\ (InUUID \/ UUIDDone) /\ Logged(IsBlkid) =>
       /\ MatchingEntries(dev) = {}
       /\ \A i \in BlkidRuns : log[i].arg = << "blkid", "-s", "UUID", "-o", "value" >> \o dev
  /\ UUIDDone /\ dev # EmptyStr =>
       IF MatchingEntries(dev) # {}
         THEN /\ uuid = Listing[CHOOSE i \in MatchingEntries(dev) :
                                  \A k \in MatchingEntries(dev) : i <= k]
              /\ ~Logged(IsBlkid)
         ELSE /\ Cardinality(BlkidRuns) = 1
              /\ uuid = IF sys.blkid.kind = "exit" /\ sys.blkid.code = 0
                          THEN TrimSpace(sys.blkid.out) ELSE EmptyStr

\* the device is a symbolic link, two entries resolve to its target: the
\* first name in listing order is returned and blkid is not run
C5_Witness ==
  /\ UUIDDone
  /\ dev = SrcMapper
  /\ Cardinality(MatchingEntries(dev)) = 2
  /\ uuid = AllUUIDNames[1]
  /\ ~Logged(IsBlkid)
  /\ sys.blkid.kind = "exit"

\* C6: rootfsUUID runs after rootfsFromMountinfo on exactly the source it
\* returned; on an empty source it returns empty without listing the by-uuid
\* directory or running the tool; a snapshot with a UUID has a source.
OpenedMountinfo(ev) == ev.op = "Open" /\ ev.arg = MountInfoFile
C6_UUIDNeedsSource ==
  /\ InUUID \/ pc = "return" => dev = mnt[1] /\ mnt = RootfsFromMountinfo
  /\ \A j \in DOMAIN log : IsReadDir(log[j]) \/ IsBlkid(log[j]) =>
       \E i \in 1..(j - 1) : OpenedMountinfo(log[i])
  /\ UUIDDone /\ mnt[1] = EmptyStr =>
       uuid = EmptyStr /\ ~Logged(IsReadDir) /\ ~Logged(IsBlkid)
  /\ Returned => (snap.RootFS.UUID # EmptyStr => snap.RootFS.Source # EmptyStr)

\* a readable mount table without a root record, blkid ready to answer
C6_Witness ==
  /\ pc = "return"
  /\ sys.mounts.ok /\ sys.mounts.table # << >>
  /\ mnt[1] = EmptyStr /\ uuid = EmptyStr
  /\ sys.blkid.kind = "exit" /\ sys.blkid.code = 0 /\ TrimSpace(sys.blkid.out) # EmptyStr

\* C7: rootfsFromMountinfo returns the source and type of the first record
\* of the mount table whose mount point is "/", two empty strings if there
\* is none or the table is unreadable.
RECURSIVE FirstRootRecord(_)
FirstRootRecord(table) ==
  IF table = << >> THEN << EmptyStr, EmptyStr >>
  ELSE IF Head(table).rec /\ Head(table).mp = << SL >>
    THEN << Head(table).source, Head(table).fstype >>
  ELSE FirstRootRecord(Tail(table))
C7_FirstRootRecord ==
  MountDone => mnt = IF sys.mounts.ok THEN FirstRootRecord(sys.mounts.table)
                     ELSE << EmptyStr, EmptyStr >>

\* C8: netIfaces returns, in enumeration order, the interfaces that are not
\* the loopback and have a non-empty, not all-zero hardware address.
KeepIface(it) ==
  /\ it.Name # << "lo" >>
  /\ it.HardwareAddr # << >>
  /\ \E i \in DOMAIN it.HardwareAddr : it.HardwareAddr[i] # 0
RECURSIVE MapNetIf(_)
MapNetIf(l) ==
  IF l = << >> THEN << >>
  ELSE << [Name |-> Head(l).Name, MAC |-> HardwareAddrString(Head(l).HardwareAddr)] >>
       \o MapNetIf(Tail(l))
C8_NetIfaces ==
  NetDone => snap.Network = IF sys.net.ok THEN MapNetIf(SelectSeq(sys.net.ifaces, KeepIface))
                            ELSE << >>

\* the specification's example: lo, eth0 (aa:bb:cc:dd:ee:ff), eth1 (all-zero)
C8_Witness ==
  /\ NetDone
  /\ sys.net.ifaces = << It("lo", MacZero), It("eth0", MacA), It("eth1", MacZero) >>
  /\ snap.Network = << [Name |-> << "eth0" >>,
                        MAC |-> << "a", "a", ":", "b", "b", ":", "c", "c", ":",
                                   "d", "d", ":", "e", "e", ":", "f", "f" >>] >>

\* C9: runs on the same unchanged system print the same bytes and digest.
C9_Idempotent ==
  \A i, j \in DOMAIN outs : outs[i] = outs[j]

C9_Witness ==
  /\ Finished
  /\ Len(outs) = NumRuns
  /\ snap.Docker.DaemonID # EmptyStr /\ snap.RootFS.UUID # EmptyStr
  /\ snap.Network # << >>

\* C10: within one dockerID resolution no source is attempted twice.
C10_NoSourceTwice ==
  \A i, j \in DOMAIN log :
    (i < j /\ IsDockerSource(log[i]) /\ IsDockerSource(log[j])) => log[i] # log[j]

MemDone == pc \notin { "scalars", "cpu", "mem" }

\* the count of the first line of a report whose label is MemTotal, 0 without one
RECURSIVE FirstMemTotal(_)
FirstMemTotal(t) ==
  IF t = << >> THEN 0
  ELSE IF Head(t).label = << "MemTotal" >> THEN Head(t).kb
  ELSE FirstMemTotal(Tail(t))

\* from the text of each report to the count its first MemTotal line carries
ExpectedMemTotal == MkFiles({ << MemReportText(t), FirstMemTotal(t) >> : t \in MemReports })

\* C11: the memory total of the snapshot is the count of the first line of
\* /proc/meminfo that starts with "MemTotal:", whatever lines follow it, and
\* zero when the file cannot be opened or has no such line.
C11_MemTotalFirstLine ==
  MemDone =>
    /\ MemInfoFile \notin DOMAIN sys.files => snap.Memory.MemTotalKB = 0
    /\ (MemInfoFile \in DOMAIN sys.files
          /\ sys.files[MemInfoFile] \in DOMAIN ExpectedMemTotal) =>
         snap.Memory.MemTotalKB = ExpectedMemTotal[sys.files[MemInfoFile]]

C11_Witness ==
  /\ Returned
  /\ MemInfoFile \in DOMAIN sys.files
  /\ sys.files[MemInfoFile] =
       MemReportText(<< [label |-> << "MemTotal" >>, blanks |-> 2, kb |-> 16],
                        [label |-> << "MemTotal" >>, blanks |-> 1, kb |-> 8] >>)
  /\ snap.Memory.MemTotalKB = 16

=============================================================================
